---- MODULE Spec2Model ----
(***************************************************************************)
(* A model of the Redis-backed record store (diffsync/store/redis.py) and  *)
(* of the Nautobot adapter example (examples/05-nautobot-peeringdb).        *)
(*                                                                         *)
(* Strings that take part in key derivation are sequences of symbols, so   *)
(* that the f-string concatenation of _get_key_for_object and the glob     *)
(* patterns given to scan_iter are computed, not assumed injective.        *)
(***************************************************************************)
EXTENDS Integers, Sequences, FiniteSets, Bags, TLC

VARIABLES
    redis,      \* the backing key-value service: a function key -> pickled record
    ideal,      \* history: per store, the live (type, uid) pairs, each with the
                \* record last added or updated through that store
    gone,       \* history: per store, the pairs removed through it and not re-added
    owner,      \* history: per key of the service, the store whose SET wrote it last
    last,       \* the last store operation, its arguments and its outcome

    local,      \* the Nautobot adapter's record graph: (type, name) -> record
    phase,      \* the adapter's life: "new" until load has been called
    nlast,      \* the last adapter operation, its arguments, requests and outcome

    pc,         \* concurrent callers: where each is in its store call
    call,       \* concurrent callers: the arguments and locals of each one's call
    setter      \* history: per key of the service, the caller whose SET wrote it last

storeVars == <<redis, ideal, gone, owner, last>>

adapterVars == <<local, phase, nlast>>

callerVars == <<pc, call, setter>>

-----------------------------------------------------------------------------
(* Symbols and the sample universe                                         *)

REGION  == <<"region">>
COUNTRY == <<"country">>
COLON   == <<":">>
STAR    == <<"*">>

\* Two store instances on one backing service; a store_id is any caller string.
SA == <<"a">>
SB == <<"a">> \o COLON \o REGION
StoreIds == { SA, SB }

ModelNames == { REGION, COUNTRY }

\* Unique ids are the identifier values of a record: any string.
U  == <<"u">>
V  == <<"v">>
CU == COUNTRY \o COLON \o U

\* The unique ids each store is used with, per type.
UidsOf(sid, m) ==
    IF m = REGION THEN { CU } ELSE IF sid = SA THEN { U, V } ELSE { U }

\* What a record's diffsync back-reference may hold.
NoneRef  == "None"
FalseRef == "False"
StoreDiffsync(sid) == IF sid = SA THEN "adapterA" ELSE "adapterB"

\* A record instance (example3/models.py): one identifier, one attribute,
\* and for Region the child collection `countries`.
MkRecord(m, u, n, cs, d) ==
    [ modelname |-> m, slug |-> u, name |-> n, countries |-> cs, diffsync |-> d ]

Regions ==
    { MkRecord(REGION, u, nc[1], nc[2], "adapterA") :
        u \in { CU }, nc \in { <<"x", <<>> >>, <<"y", <<V, U>> >> } }

Countries ==
    { MkRecord(COUNTRY, u, "x", <<>>, "adapterA") : u \in { U, V } }

Records == Regions \cup Countries

\* The records each store is given.
RecordsOf(sid) == { obj \in Records : obj.slug \in UidsOf(sid, obj.modelname) }


-----------------------------------------------------------------------------
(* The record base class, as far as the store uses it                       *)

get_type(obj) == obj.modelname

get_unique_id(obj) == obj.slug

create_unique_id(identifier) == identifier.slug

\* Region._children = {"country": "countries"}; Country declares none.
get_children_mapping(obj) ==
    IF obj.modelname = REGION THEN << <<COUNTRY, "countries">> >> ELSE <<>>

getattr(obj, fieldname) == obj[fieldname]

\* Equality on the declared identifier and attribute fields.
SameFields(o1, o2) ==
    /\ o1.modelname = o2.modelname
    /\ o1.slug = o2.slug
    /\ o1.name = o2.name

-----------------------------------------------------------------------------
(* RedisStore                                                               *)

\* __init__: self._store_label = f"diffsync:{self._store_id}"
store_label(sid) == <<"diffsync">> \o COLON \o sid

\* f"{self._store_label}:{modelname}:{uid}"
_get_key_for_object(sid, modelname, uid) ==
    store_label(sid) \o COLON \o modelname \o COLON \o uid

\* copy.copy(obj); obj_copy.diffsync = False; dumps(obj_copy)
dumps_copy(obj) == [ obj EXCEPT !.diffsync = FalseRef ]

\* A read that leaves the record as it was pickled.
loads_only(diffsync, value) == value

\* loads(...); obj.diffsync = self.diffsync
loads_attach(diffsync, value) == [ value EXCEPT !.diffsync = diffsync ]

\* Redis SET with NX: an existing entry is kept.
redis_set_nx(r, key, value) ==
    [ k \in (DOMAIN r) \cup {key} |-> IF k \in DOMAIN r THEN r[k] ELSE value ]

\* Redis SET: unconditional overwrite.
redis_set(r, key, value) ==
    [ k \in (DOMAIN r) \cup {key} |-> IF k = key THEN value ELSE r[k] ]

\* Redis DEL.
redis_delete(r, key) == [ k \in (DOMAIN r) \ {key} |-> r[k] ]

\* Redis glob matching, for the patterns the store builds: literal symbols and *.
RECURSIVE GlobMatch(_, _)
GlobMatch(p, k) ==
    IF p = <<>> THEN k = <<>>
    ELSE IF <<Head(p)>> = STAR
         THEN GlobMatch(Tail(p), k) \/ (k # <<>> /\ GlobMatch(p, Tail(k)))
         ELSE k # <<>> /\ Head(k) = Head(p) /\ GlobMatch(Tail(p), Tail(k))

\* scan_iter(pattern): the keys matching the pattern (enumeration order unspecified).
scan_iter(r, pattern) == { k \in DOMAIN r : GlobMatch(pattern, k) }

\* A get that takes a mapping identifier with a modelname string as well.
get_any_form(r, sid, diffsync, objform, modelname, idform, uid) ==
    LET key == _get_key_for_object(sid, modelname, uid)
    IN  IF key \in DOMAIN r
        THEN [ err |-> "none", obj |-> loads_attach(diffsync, r[key]) ]
        ELSE [ err |-> "ObjectNotFound", obj |-> "none" ]

\* get(obj, identifier).  objform: "str" (a modelname string) or "class";
\* idform: "str" (a uid) or "mapping" (a dict of identifier values).
\* hasattr(self, obj) looks the modelname up on the store object itself, which
\* has no attribute called region or country.
get(r, sid, diffsync, objform, modelname, idform, uid) ==
    LET object_class == IF objform = "str" THEN "None" ELSE "class"
        key == _get_key_for_object(sid, modelname, uid)
    IN  IF idform # "str" /\ object_class = "None"
        THEN [ err |-> "ValueError", obj |-> "none" ]
        ELSE IF key \in DOMAIN r
             THEN [ err |-> "none", obj |-> loads_attach(diffsync, r[key]) ]
             ELSE [ err |-> "ObjectNotFound", obj |-> "none" ]

\* get_all(obj): the records at the scanned keys, one per key, as a bag
\* (the list's order is the service's enumeration order, which is unspecified).
get_all(r, sid, diffsync, modelname) ==
    LET keys == scan_iter(r, store_label(sid) \o COLON \o modelname \o COLON \o STAR)
        objs == { loads_attach(diffsync, r[k]) : k \in keys }
    IN  [ o \in objs |-> Cardinality({ k \in keys : loads_attach(diffsync, r[k]) = o }) ]

\* get_by_uids(uids, obj): fails at the first uid with no entry.
RECURSIVE get_by_uids(_, _, _, _, _)
get_by_uids(r, sid, diffsync, uids, modelname) ==
    IF uids = <<>> THEN [ err |-> "none", objs |-> <<>> ]
    ELSE LET key == _get_key_for_object(sid, modelname, Head(uids))
         IN  IF key \notin DOMAIN r
             THEN [ err |-> "ObjectNotFound", objs |-> <<>> ]
             ELSE LET rest == get_by_uids(r, sid, diffsync, Tail(uids), modelname)
                  IN  IF rest.err # "none" THEN rest
                      ELSE [ err |-> "none",
                             objs |-> <<loads_attach(diffsync, r[key])>> \o rest.objs ]

\* add as the commented-out lines 141-150 would make it: an entry already at
\* the key is kept.
add_keep_existing(r, sid, obj) ==
    LET object_key == _get_key_for_object(sid, get_type(obj), get_unique_id(obj))
    IN  IF object_key \in DOMAIN r THEN r
        ELSE redis_set(r, object_key, dumps_copy(obj))

\* add(obj): the new contents of the service.
add(r, sid, obj) ==
    redis_set(r, _get_key_for_object(sid, get_type(obj), get_unique_id(obj)),
              dumps_copy(obj))

\* update without line 163: the back-reference is pickled with the record.
update_keep_backref(r, sid, obj) ==
    redis_set(r, _get_key_for_object(sid, get_type(obj), get_unique_id(obj)), obj)

\* update(obj)
update(r, sid, obj) ==
    LET object_key == _get_key_for_object(sid, get_type(obj), get_unique_id(obj))
        obj_copy   == [ obj EXCEPT !.diffsync = FalseRef ]
    IN  redis_set(r, object_key, obj_copy)

\* The (child_type, child_id) pairs remove walks, in order.
RECURSIVE ChildRefsOf(_, _)
ChildRefsOf(obj, mapping) ==
    IF mapping = <<>> THEN <<>>
    ELSE LET ids == getattr(obj, Head(mapping)[2])
         IN  [ i \in 1..Len(ids) |-> [ type |-> Head(mapping)[1], id |-> ids[i] ] ]
             \o ChildRefsOf(obj, Tail(mapping))

\* remove(obj, remove_children): err, the new contents, and the child
\* references the loop looked up.
RECURSIVE remove(_, _, _, _)
RECURSIVE remove_each_child(_, _, _)
remove(r, sid, obj, remove_children) ==
    LET object_key == _get_key_for_object(sid, get_type(obj), get_unique_id(obj))
    IN  IF object_key \notin DOMAIN r
        THEN [ err |-> "ObjectNotFound", store |-> r, tried |-> <<>> ]
        ELSE IF remove_children
             THEN LET res == remove_each_child(redis_delete(r, object_key), sid,
                                 ChildRefsOf(obj, get_children_mapping(obj)))
                  IN  [ err |-> "none", store |-> res.store, tried |-> res.tried ]
             ELSE [ err |-> "none", store |-> redis_delete(r, object_key),
                    tried |-> <<>> ]

\* The child loop without its try/except: the first missing child ends it.
remove_each_child_stop(r, sid, refs) ==
    IF refs = <<>> THEN [ store |-> r, tried |-> <<>> ]
    ELSE LET ref  == Head(refs)
             got  == get(r, sid, StoreDiffsync(sid), "str", ref.type, "str", ref.id)
         IN  IF got.err # "none" THEN [ store |-> r, tried |-> <<ref>> ]
             ELSE LET rest == remove_each_child(remove(r, sid, got.obj, TRUE).store,
                                                sid, Tail(refs))
                  IN  [ store |-> rest.store, tried |-> <<ref>> \o rest.tried ]

\* The body of the child loop: get, then remove; ObjectNotFound is swallowed.
remove_each_child(r, sid, refs) ==
    IF refs = <<>> THEN [ store |-> r, tried |-> <<>> ]
    ELSE LET ref  == Head(refs)
             got  == get(r, sid, StoreDiffsync(sid), "str", ref.type, "str", ref.id)
             r2   == IF got.err = "none"
                     THEN remove(r, sid, got.obj, TRUE).store
                     ELSE r
             rest == remove_each_child(r2, sid, Tail(refs))
         IN  [ store |-> rest.store, tried |-> <<ref>> \o rest.tried ]

\* count(modelname): `if modelname:` holds for a non-empty string; <<>> stands
\* for None (and for the empty string), the call with no filter.
count(r, sid, modelname) ==
    LET search_pattern ==
            IF modelname # <<>>
            THEN store_label(sid) \o COLON \o modelname \o COLON \o STAR
            ELSE store_label(sid) \o COLON \o STAR
    IN  Cardinality(scan_iter(r, search_pattern))

-----------------------------------------------------------------------------
(* The store's operations as actions                                        *)

NoOp ==
    [ op |-> "init", sid |-> <<>>, obj |-> "none", flag |-> FALSE,
      modelname |-> <<>>, uids |-> <<>>, form |-> "none",
      err |-> "none", result |-> "none",
      was |-> "none",     \* a write: the history status of the record before it
      had |-> FALSE,      \* a write: whether the record's key existed before it
      keys |-> {},        \* a read: the keys whose entries it returned or counted;
                          \* a remove: the keys it deleted
      diffsync |-> "none" ]   \* a read: the adapter of the store instance that read

Pair(obj) == << get_type(obj), get_unique_id(obj) >>

PairsOf(sid) == UNION { { <<m, u>> : u \in UidsOf(sid, m) } : m \in ModelNames }

\* The history status of a pair in a store: never added, live, or removed.
Status(sid, p) ==
    IF p \in DOMAIN ideal[sid] THEN "live"
    ELSE IF p \in gone[sid] THEN "removed" ELSE "never"

\* The live pairs of store sid whose keys a call deleted.
Deleted(sid, r0, r1) ==
    { p \in DOMAIN ideal[sid] :
        _get_key_for_object(sid, p[1], p[2]) \in (DOMAIN r0) \ (DOMAIN r1) }

IdealAfterSet(sid, obj) ==
    [ ideal EXCEPT ![sid] =
        [ p \in (DOMAIN ideal[sid]) \cup { Pair(obj) } |->
            IF p = Pair(obj) THEN obj ELSE ideal[sid][p] ] ]

IdealAfterRemove(sid, r0, r1) ==
    [ ideal EXCEPT ![sid] =
        [ p \in (DOMAIN ideal[sid]) \ Deleted(sid, r0, r1) |-> ideal[sid][p] ] ]

KeyOf(sid, obj) == _get_key_for_object(sid, get_type(obj), get_unique_id(obj))

OwnerAfterSet(sid, key) ==
    [ k \in (DOMAIN owner) \cup {key} |-> IF k = key THEN sid ELSE owner[k] ]

Add(sid, obj) ==
    /\ redis' = add(redis, sid, obj)
    /\ ideal' = IdealAfterSet(sid, obj)
    /\ gone' = [ gone EXCEPT ![sid] = @ \ { Pair(obj) } ]
    /\ owner' = OwnerAfterSet(sid, KeyOf(sid, obj))
    /\ last' = [ NoOp EXCEPT !.op = "add", !.sid = sid, !.obj = obj,
                             !.was = Status(sid, Pair(obj)),
                             !.had = KeyOf(sid, obj) \in DOMAIN redis ]
    /\ UNCHANGED << adapterVars, callerVars >>

Update(sid, obj) ==
    /\ redis' = update(redis, sid, obj)
    /\ ideal' = IdealAfterSet(sid, obj)
    /\ gone' = [ gone EXCEPT ![sid] = @ \ { Pair(obj) } ]
    /\ owner' = OwnerAfterSet(sid, KeyOf(sid, obj))
    /\ last' = [ NoOp EXCEPT !.op = "update", !.sid = sid, !.obj = obj,
                             !.was = Status(sid, Pair(obj)),
                             !.had = KeyOf(sid, obj) \in DOMAIN redis ]
    /\ UNCHANGED << adapterVars, callerVars >>

Remove(sid, obj, remove_children) ==
    LET res == remove(redis, sid, obj, remove_children)
    IN  /\ redis' = res.store
        /\ ideal' = IF res.err = "none"
                    THEN IdealAfterRemove(sid, redis, res.store)
                    ELSE ideal
        /\ gone' = IF res.err = "none"
                   THEN [ gone EXCEPT ![sid] = @ \cup Deleted(sid, redis, res.store) ]
                   ELSE gone
        /\ owner' = [ k \in DOMAIN res.store |-> owner[k] ]
        /\ last' = [ NoOp EXCEPT !.op = "remove", !.sid = sid, !.obj = obj,
                                 !.flag = remove_children, !.err = res.err,
                                 !.result = res.tried,
                                 !.was = Status(sid, Pair(obj)),
                                 !.had = KeyOf(sid, obj) \in DOMAIN redis,
                                 !.keys = (DOMAIN redis) \ (DOMAIN res.store) ]
        /\ UNCHANGED << adapterVars, callerVars >>

Get(sid, diffsync, objform, modelname, idform, uid) ==
    LET id  == IF idform = "str" THEN uid ELSE create_unique_id([slug |-> uid])
        res == get(redis, sid, diffsync, objform, modelname, idform, id)
    IN  /\ last' = [ NoOp EXCEPT !.op = "get", !.sid = sid, !.modelname = modelname,
                                 !.diffsync = diffsync,
                                 !.uids = <<uid>>, !.form = <<objform, idform>>,
                                 !.err = res.err, !.result = res.obj,
                                 !.keys = IF res.err = "none"
                                          THEN { _get_key_for_object(sid, modelname, id) }
                                          ELSE {} ]
        /\ UNCHANGED <<redis, ideal, gone, owner>>
    /\ UNCHANGED << adapterVars, callerVars >>

GetAll(sid, diffsync, modelname) ==
    /\ last' = [ NoOp EXCEPT !.op = "get_all", !.sid = sid, !.modelname = modelname,
                             !.result = get_all(redis, sid, diffsync, modelname),
                             !.diffsync = diffsync,
                             !.keys = scan_iter(redis, store_label(sid) \o COLON
                                                  \o modelname \o COLON \o STAR) ]
    /\ UNCHANGED <<redis, ideal, gone, owner>>
    /\ UNCHANGED << adapterVars, callerVars >>

GetByUids(sid, diffsync, uids, modelname) ==
    LET res == get_by_uids(redis, sid, diffsync, uids, modelname)
    IN  /\ last' = [ NoOp EXCEPT !.op = "get_by_uids", !.sid = sid,
                                 !.modelname = modelname, !.uids = uids,
                                 !.diffsync = diffsync,
                                 !.err = res.err, !.result = res.objs,
                                 !.keys = IF res.err = "none"
                                          THEN { _get_key_for_object(sid, modelname, uids[i]) :
                                                   i \in 1..Len(uids) }
                                          ELSE {} ]
        /\ UNCHANGED <<redis, ideal, gone, owner>>
    /\ UNCHANGED << adapterVars, callerVars >>

Count(sid, modelname) ==
    /\ last' = [ NoOp EXCEPT !.op = "count", !.sid = sid, !.modelname = modelname,
                             !.result = count(redis, sid, modelname),
                             !.keys = scan_iter(redis,
                                         IF modelname # <<>>
                                         THEN store_label(sid) \o COLON \o modelname
                                                  \o COLON \o STAR
                                         ELSE store_label(sid) \o COLON \o STAR) ]
    /\ UNCHANGED <<redis, ideal, gone, owner>>
    /\ UNCHANGED << adapterVars, callerVars >>

NoFilter == <<>>

\* The uid lists given to get_by_uids, per type.
UidLists(sid, m) ==
    IF m = REGION THEN { <<CU>> }
    ELSE IF sid = SA THEN { <<U>>, <<V, U>>, <<U, U>> } ELSE { <<U>>, <<U, U>> }

StoreInit ==
    /\ redis = << >>
    /\ ideal = [ sid \in StoreIds |-> << >> ]
    /\ gone = [ sid \in StoreIds |-> {} ]
    /\ owner = << >>
    /\ last = NoOp

StoreNext ==
    \/ \E sid \in StoreIds : \E obj \in RecordsOf(sid) : Add(sid, obj)
    \/ \E sid \in StoreIds : \E obj \in RecordsOf(sid) : Update(sid, obj)
    \/ \E sid \in StoreIds, rc \in BOOLEAN :
            \E obj \in RecordsOf(sid) : Remove(sid, obj, rc)
    \/ \E sid \in StoreIds, objform \in {"str", "class"}, m \in ModelNames,
          idform \in {"str", "mapping"} :
            \E u \in UidsOf(sid, m) :
                Get(sid, StoreDiffsync(sid), objform, m, idform, u)
    \/ \E sid \in StoreIds, m \in ModelNames : GetAll(sid, StoreDiffsync(sid), m)
    \/ \E sid \in StoreIds, m \in ModelNames :
            \E uids \in UidLists(sid, m) :
                GetByUids(sid, StoreDiffsync(sid), uids, m)
    \/ \E sid \in StoreIds, m \in ModelNames \cup {NoFilter} : Count(sid, m)

-----------------------------------------------------------------------------
(* The Nautobot adapter (examples/05-nautobot-peeringdb/adapter_nautobot.py) *)

MaxEntries == 3     \* entries of one listing, over all its pages
MaxPages   == 2     \* pages of one listing

None == "None"

\* str(v) and f"{v}": a string is itself, None becomes the text None.
NoneText == "'None'"

py_str(v) == IF v = None THEN NoneText ELSE v

\* Python truthiness of the strings used here.
Falsy(v) == v \in { None, "" }

\* A nullable JSON object: null is the empty sequence, an object a sequence of one record.
Null == << >>

Obj(fields) == << fields >>

RegionNames == { "r1", "r2", "r3" }

RKey(name) == << "region", name >>
SKey(name) == << "site", name >>

\* HTTP status codes a request may end with.
Statuses == { 201, 304, 404, 500 }

\* A raise_for_status() that accepts every response.
never_raises(status) == FALSE

\* response.raise_for_status(): HTTPError for a 4xx or 5xx status, nothing otherwise.
raise_for_status(status) == status >= 400 /\ status < 600

\* A dict with one more item.
SetItem(d, k, v) == (k :> v) @@ d

\* DiffSync.get(self.region, name): the held record, or ObjectNotFound.
diffsync_get(loc, key) ==
    IF key \in DOMAIN loc THEN [ err |-> "none", obj |-> loc[key] ]
    ELSE [ err |-> "ObjectNotFound", obj |-> << >> ]

\* DiffSyncModel.create: the new record (its pk unset), registered locally.
base_create(loc, key, attrs) ==
    (key :> SetItem(attrs, "pk", None)) @@ loc

\* DiffSyncModel.update: the given attributes set on the record.
base_update(loc, key, attrs) ==
    [ loc EXCEPT ![key] =
        [ f \in DOMAIN loc[key] |-> IF f \in DOMAIN attrs THEN attrs[f] ELSE loc[key][f] ] ]

\* DiffSyncModel.delete: the record leaves the local graph.
base_delete(loc, key) == [ k \in (DOMAIN loc) \ {key} |-> loc[k] ]

\* NautobotRemote.post / patch: the request, and whether it raised.
Request(method, path, data, status) ==
    [ method |-> method, path |-> path, data |-> data, status |-> status ]

post(path, data, status) ==
    [ req |-> Request("POST", path, data, status), raised |-> raise_for_status(status) ]

patch(path, data, status) ==
    [ req |-> Request("PATCH", path, data, status), raised |-> raise_for_status(status) ]

\* NautobotRemote.delete (never called by the record classes).
http_delete(path, status) ==
    [ req |-> Request("DELETE", path, << >>, status), raised |-> raise_for_status(status) ]

Outcome(err, loc, reqs) == [ err |-> err, local |-> loc, reqs |-> reqs ]

\* RegionNautobotModel.create(diffsync, ids, attrs); status: the POST's response.
Region_create(loc, ids, attrs, status) ==
    LET d0 == [ name |-> ids.name, slug |-> attrs.slug ]
        d1 == IF ~Falsy(attrs.description)
              THEN SetItem(d0, "description", attrs.description) ELSE d0
        parent == diffsync_get(loc, RKey(attrs.parent_name))
    IN  IF ~Falsy(attrs.parent_name) /\ parent.err # "none"
        THEN Outcome("ObjectNotFound", loc, << >>)
        ELSE LET data == IF ~Falsy(attrs.parent_name)
                         THEN SetItem(d1, "parent", py_str(parent.obj.pk)) ELSE d1
                 sent == post(<< "/api/dcim/regions/" >>, data, status)
             IN  IF sent.raised THEN Outcome("HTTPError", loc, << sent.req >>)
                 ELSE Outcome("none", base_create(loc, RKey(ids.name), attrs), << sent.req >>)

\* An update that leaves `parent` out of the body when parent_name is cleared.
Region_update_omit_null(loc, key, attrs, status) ==
    LET d0 == << >>
        d1 == IF "slug" \in DOMAIN attrs THEN SetItem(d0, "slug", attrs.slug) ELSE d0
        d2 == IF "description" \in DOMAIN attrs
              THEN SetItem(d1, "description", attrs.description) ELSE d1
        lookup == "parent_name" \in DOMAIN attrs /\ ~Falsy(attrs["parent_name"])
        parent == IF lookup THEN diffsync_get(loc, RKey(attrs["parent_name"]))
                  ELSE [ err |-> "none", obj |-> << >> ]
    IN  IF parent.err # "none"
        THEN Outcome("ObjectNotFound", loc, << >>)
        ELSE LET data == IF lookup THEN SetItem(d2, "parent", py_str(parent.obj.pk)) ELSE d2
                 sent == patch(<< "/api/dcim/regions/", py_str(loc[key].pk), "/" >>, data, status)
             IN  IF sent.raised THEN Outcome("HTTPError", loc, << sent.req >>)
                 ELSE Outcome("none", base_update(loc, key, attrs), << sent.req >>)

\* RegionNautobotModel.update(attrs) on the held record `key`.
Region_update(loc, key, attrs, status) ==
    LET d0 == << >>
        d1 == IF "slug" \in DOMAIN attrs THEN SetItem(d0, "slug", attrs.slug) ELSE d0
        d2 == IF "description" \in DOMAIN attrs
              THEN SetItem(d1, "description", attrs.description) ELSE d1
        lookup == "parent_name" \in DOMAIN attrs /\ ~Falsy(attrs["parent_name"])
        parent == IF lookup THEN diffsync_get(loc, RKey(attrs["parent_name"]))
                  ELSE [ err |-> "none", obj |-> << >> ]
    IN  IF parent.err # "none"
        THEN Outcome("ObjectNotFound", loc, << >>)
        ELSE LET data == IF "parent_name" \in DOMAIN attrs
                         THEN SetItem(d2, "parent", IF lookup THEN py_str(parent.obj.pk) ELSE None)
                         ELSE d2
                 sent == patch(<< "/api/dcim/regions/", py_str(loc[key].pk), "/" >>, data, status)
             IN  IF sent.raised THEN Outcome("HTTPError", loc, << sent.req >>)
                 ELSE Outcome("none", base_update(loc, key, attrs), << sent.req >>)

\* RegionNautobotModel.delete with line 57 in force: the DELETE is sent first.
Region_delete_remote(loc, key, status) ==
    LET sent == http_delete(<< "/api/dcim/regions/", py_str(loc[key].pk), "/" >>, status)
    IN  IF sent.raised THEN Outcome("HTTPError", loc, << sent.req >>)
        ELSE Outcome("none", base_delete(loc, key), << sent.req >>)

\* RegionNautobotModel.delete(): status is the response a request would get.
Region_delete(loc, key, status) == Outcome("none", base_delete(loc, key), << >>)

\* SiteNautobotModel.create(diffsync, ids, attrs)
Site_create(loc, ids, attrs, status) ==
    LET data == [ name |-> ids.name,
                  slug |-> attrs.slug,
                  description |-> attrs.description,
                  status |-> attrs.status_slug,
                  region |-> IF ~Falsy(attrs.region_name)
                             THEN Obj([ name |-> attrs.region_name ]) ELSE Null,
                  latitude |-> attrs.latitude,
                  longitude |-> attrs.longitude ]
        sent == post(<< "/api/dcim/sites/" >>, data, status)
    IN  IF sent.raised THEN Outcome("HTTPError", loc, << sent.req >>)
        ELSE Outcome("none", base_create(loc, SKey(ids.name), attrs), << sent.req >>)

\* SiteNautobotModel.update(attrs)
Site_update(loc, key, attrs, status) ==
    LET d0 == << >>
        d1 == IF "slug" \in DOMAIN attrs THEN SetItem(d0, "slug", attrs.slug) ELSE d0
        d2 == IF "description" \in DOMAIN attrs
              THEN SetItem(d1, "description", attrs.description) ELSE d1
        d3 == IF "status_slug" \in DOMAIN attrs
              THEN SetItem(d2, "status", attrs["status_slug"]) ELSE d2
        d4 == IF "region_name" \in DOMAIN attrs
              THEN SetItem(d3, "region",
                           IF ~Falsy(attrs["region_name"])
                           THEN Obj([ name |-> attrs["region_name"] ]) ELSE Null)
              ELSE d3
        d5 == IF "latitude" \in DOMAIN attrs
              THEN SetItem(d4, "latitude", attrs.latitude) ELSE d4
        data == IF "longitude" \in DOMAIN attrs
                THEN SetItem(d5, "longitude", attrs.longitude) ELSE d5
        sent == patch(<< "/api/dcim/sites/", py_str(loc[key].pk), "/" >>, data, status)
    IN  IF sent.raised THEN Outcome("HTTPError", loc, << sent.req >>)
        ELSE Outcome("none", base_update(loc, key, attrs), << sent.req >>)

\* SiteNautobotModel.delete()
Site_delete(loc, key, status) == Outcome("none", base_delete(loc, key), << >>)

\* One response to a listing GET, with its HTTP status: a page of results with
\* the index of the next page (0: no next link), an error body without
\* "results", or a body that is not JSON.
Page(results, next) ==
    [ kind |-> "page", status |-> 200, results |-> results, next |-> next ]

ErrorBody(kind) == [ kind |-> kind, status |-> 500, results |-> << >>, next |-> 0 ]

\* A load loop that never follows the next link.
fetch_first_page(resps, i, acc, n) ==
    LET r == resps[i]
    IN  IF r.kind = "html"
        THEN [ err |-> "JSONDecodeError", entries |-> acc, fetched |-> n + 1 ]
        ELSE IF r.kind = "detail"
        THEN [ err |-> "KeyError", entries |-> acc, fetched |-> n + 1 ]
        ELSE [ err |-> "none", entries |-> acc \o r.results, fetched |-> n + 1 ]

\* The requests.get(...).json() loop of load: follow "next" from response i.
RECURSIVE fetch_pages(_, _, _, _)
fetch_pages(resps, i, acc, n) ==
    LET r == resps[i]
    IN  IF r.kind = "html"
        THEN [ err |-> "JSONDecodeError", entries |-> acc, fetched |-> n + 1 ]
        ELSE IF r.kind = "detail"
        THEN [ err |-> "KeyError", entries |-> acc, fetched |-> n + 1 ]
        ELSE IF r.next # 0
        THEN fetch_pages(resps, r.next, acc \o r.results, n + 1)
        ELSE [ err |-> "none", entries |-> acc \o r.results, fetched |-> n + 1 ]

\* self.region(...) built from one entry of the regions listing.
region_from_entry(e) ==
    [ slug |-> e.slug,
      description |-> IF Falsy(e.description) THEN None ELSE e.description,
      parent_name |-> IF e.parent # Null THEN e.parent[1].name ELSE None,
      pk |-> e.id ]

\* self.site(...) built from one entry of the sites listing.
site_from_entry(e) ==
    [ slug |-> e.slug,
      status_slug |-> IF e.status # Null THEN e.status[1].value ELSE "active",
      region_name |-> IF e.region # Null THEN e.region[1].name ELSE None,
      description |-> e.description,
      longitude |-> e.longitude,
      latitude |-> e.latitude,
      pk |-> e.id ]

\* DiffSync.add for each entry in turn; a second record of the same name is refused.
RECURSIVE add_entries(_, _, _)
add_entries(loc, type, entries) ==
    IF entries = << >> THEN [ err |-> "none", local |-> loc ]
    ELSE LET e == Head(entries)
             key == << type, e.name >>
             rec == IF type = "region" THEN region_from_entry(e) ELSE site_from_entry(e)
         IN  IF key \in DOMAIN loc
             THEN [ err |-> "ObjectAlreadyExists", local |-> loc ]
             ELSE add_entries((key :> rec) @@ loc, type, Tail(entries))

\* NautobotRemote.load(): regions, then sites.
load(loc, regionResps, siteResps) ==
    LET rf == fetch_pages(regionResps, 1, << >>, 0)
        ra == add_entries(loc, "region", rf.entries)
        sf == fetch_pages(siteResps, 1, << >>, 0)
        sa == add_entries(ra.local, "site", sf.entries)
    IN  IF rf.err # "none"
        THEN [ err |-> rf.err, local |-> loc, gets |-> rf.fetched ]
        ELSE IF ra.err # "none"
        THEN [ err |-> ra.err, local |-> ra.local, gets |-> rf.fetched ]
        ELSE IF sf.err # "none"
        THEN [ err |-> sf.err, local |-> ra.local, gets |-> rf.fetched + sf.fetched ]
        ELSE [ err |-> sa.err, local |-> sa.local, gets |-> rf.fetched + sf.fetched ]

-----------------------------------------------------------------------------
(* Actions of the adapter *)

NNoOp == [ op |-> "none", type |-> "", name |-> "", pk |-> None, attrs |-> << >>,
           status |-> 0, err |-> "none", reqs |-> << >>, pages |-> << >>, gets |-> 0,
           statuses |-> << >> ]

\* What the remote system lists.
RegionEntry(name, description, parent, id) ==
    [ name |-> name, slug |-> "a", description |-> description, parent |-> parent, id |-> id ]

RegionEntries ==
    { RegionEntry("r1", "", Null, "1"),
      RegionEntry("r2", "d", Obj([ name |-> "r1" ]), "2"),
      RegionEntry("r3", "", Null, "3") }

SiteEntry(status, region) ==
    [ name |-> "s1", slug |-> "a", status |-> status, region |-> region,
      description |-> "", longitude |-> None, latitude |-> None, id |-> "9" ]

SiteEntries ==
    { SiteEntry(Null, Obj([ name |-> "r1" ])),
      SiteEntry(Obj([ value |-> "planned" ]), Null) }

SeqsUpTo(S, n) == UNION { [ 1..k -> S ] : k \in 0..n }

\* The ways of cutting a sequence of entries into at most n consecutive pages.
RECURSIVE Paginations(_, _)
Paginations(es, n) ==
    IF n <= 1 THEN { << es >> }
    ELSE { << es >> } \cup
         UNION { { << SubSeq(es, 1, k) >> \o rest :
                       rest \in Paginations(SubSeq(es, k + 1, Len(es)), n - 1) } :
                 k \in 0..Len(es) }

\* The responses serving these pages: each but the last links to the next.
Responses(chunks) ==
    [ i \in 1..Len(chunks) |-> Page(chunks[i], IF i < Len(chunks) THEN i + 1 ELSE 0) ]

RegionListings ==
    UNION { { Responses(c) : c \in Paginations(es, MaxPages) } :
            es \in SeqsUpTo(RegionEntries, MaxEntries) }

\* A listing one of whose responses is a failure body.
FailingListings(listings) ==
    UNION { { [ l EXCEPT ![f] = ErrorBody(kind) ] : f \in 1..Len(l), kind \in { "detail", "html" } } :
            l \in listings }

\* A listing one of whose pages is served with an error status.
ErrorStatusListings(listings) ==
    UNION { { [ l EXCEPT ![f].status = 500 ] : f \in 1..Len(l) } : l \in listings }

SiteListings ==
    { Responses(<< << >> >>), Responses(<< << >>, << >> >>), << ErrorBody("detail") >> }
    \cup { Responses(<< << e >> >>) : e \in SiteEntries }

PageSizes(resps) ==
    [ i \in 1..Len(resps) |-> [ kind |-> resps[i].kind, size |-> Len(resps[i].results) ] ]

Load(regionResps, siteResps) ==
    /\ phase = "new"
    /\ LET res == load(local, regionResps, siteResps)
       IN  /\ local' = res.local
           /\ phase' = IF res.err = "none" THEN "loaded" ELSE "failed"
           /\ nlast' = [ NNoOp EXCEPT !.op = "load", !.err = res.err,
                                      !.pages = PageSizes(regionResps), !.gets = res.gets,
                                      !.statuses = [ i \in 1..Len(regionResps) |->
                                                       regionResps[i].status ] ]
    /\ UNCHANGED << storeVars, callerVars >>

Done(op, type, name, attrs, status, res) ==
    /\ local' = res.local
    /\ nlast' = [ NNoOp EXCEPT !.op = op, !.type = type, !.name = name, !.attrs = attrs,
                               !.pk = IF << type, name >> \in DOMAIN local
                                      THEN local[<< type, name >>].pk ELSE None,
                               !.status = status, !.err = res.err, !.reqs = res.reqs ]
    /\ UNCHANGED << phase, storeVars, callerVars >>

\* The attributes the sync engine passes to create and update.
RegionAttrs ==
    { [ slug |-> "a", description |-> d, parent_name |-> p ] :
        d \in { None, "d" }, p \in { None, "r1" } }

RegionChanges ==
    { [ slug |-> "b" ], [ description |-> None, parent_name |-> None ],
      [ parent_name |-> "r1" ] }

SiteAttrs ==
    { [ slug |-> "a", description |-> "", status_slug |-> "active", region_name |-> r,
        latitude |-> None, longitude |-> None ] : r \in { None, "r1" } }

SiteChanges ==
    { [ status_slug |-> "planned" ], [ region_name |-> None ],
      [ slug |-> "b", description |-> "d", region_name |-> "r2",
        latitude |-> "1", longitude |-> "2" ] }

RegionCreate(name, attrs, status) ==
    /\ phase = "loaded"
    /\ RKey(name) \notin DOMAIN local
    /\ Done("create", "region", name, attrs, status,
            Region_create(local, [ name |-> name ], attrs, status))

RegionUpdate(name, attrs, status) ==
    /\ phase = "loaded"
    /\ RKey(name) \in DOMAIN local
    /\ Done("update", "region", name, attrs, status,
            Region_update(local, RKey(name), attrs, status))

RegionDelete(name, status) ==
    /\ phase = "loaded"
    /\ RKey(name) \in DOMAIN local
    /\ Done("delete", "region", name, << >>, status,
            Region_delete(local, RKey(name), status))

SiteCreate(name, attrs, status) ==
    /\ phase = "loaded"
    /\ SKey(name) \notin DOMAIN local
    /\ Done("create", "site", name, attrs, status,
            Site_create(local, [ name |-> name ], attrs, status))

SiteUpdate(name, attrs, status) ==
    /\ phase = "loaded"
    /\ SKey(name) \in DOMAIN local
    /\ Done("update", "site", name, attrs, status,
            Site_update(local, SKey(name), attrs, status))

SiteDelete(name, status) ==
    /\ phase = "loaded"
    /\ SKey(name) \in DOMAIN local
    /\ Done("delete", "site", name, << >>, status,
            Site_delete(local, SKey(name), status))

AdapterInit ==
    /\ local = << >>
    /\ phase = "new"
    /\ nlast = NNoOp

AdapterNext ==
    \/ \E r \in RegionListings \cup FailingListings(RegionListings)
                \cup ErrorStatusListings(RegionListings), st \in SiteListings :
          Load(r, st)
    \/ \E n \in { "r1", "r2" }, a \in RegionAttrs, st \in Statuses : RegionCreate(n, a, st)
    \/ \E a \in RegionChanges, st \in Statuses : RegionUpdate("r2", a, st)
    \/ \E n \in { "r1", "r2" }, st \in Statuses : RegionDelete(n, st)
    \/ \E a \in SiteAttrs, st \in Statuses : SiteCreate("s1", a, st)
    \/ \E a \in SiteChanges, st \in Statuses : SiteUpdate("s1", a, st)
    \/ \E st \in Statuses : SiteDelete("s1", st)

-----------------------------------------------------------------------------
(* Concurrent callers of one store: each command sent to the service is one *)
(* step, and the steps of different callers interleave                      *)

Procs == { "p1", "p2" }

\* Each caller has its own store instance on store_id "a", owned by its own adapter.
CallerDiffsync(p) == IF p = "p1" THEN "adapterA" ELSE "adapterA2"

\* The records the concurrent callers work with, all through store "a".
RaceRecords == Regions \cup Countries

NoCall ==
    [ op |-> "none", obj |-> "none", modelname |-> << >>, key |-> << >>,
      buf |-> "none",       \* a write: the pickled copy to be SET
      scanned |-> {},       \* get_all: the keys its scan enumerated
      keys |-> {},          \* get_all: the enumerated keys not read yet
      results |-> {},       \* get_all, get: the records read so far
      uids |-> << >>,       \* get_by_uids: the ids not read yet
      list |-> << >>,       \* get_by_uids: the records read so far, in order
      err |-> "none",
      rival |-> FALSE ]     \* a write: another caller was between building its
                            \* copy and its SET on the same key when this one began

Returned(p) == pc[p] \in { "idle", "done" }

\* The one SET that add or update sends: its key and its value.
WriteOf(op, sid, obj) ==
    LET w == IF op = "add" THEN add(<< >>, sid, obj) ELSE update(<< >>, sid, obj)
        k == CHOOSE k \in DOMAIN w : TRUE
    IN  [ key |-> k, value |-> w[k] ]

\* add / update up to the SET: the key is derived and the copy pickled.
WriteBegin(p, op, obj) ==
    /\ Returned(p)
    /\ LET w == WriteOf(op, SA, obj)
       IN  call' = [ call EXCEPT ![p] =
                        [ NoCall EXCEPT !.op = op, !.obj = obj, !.key = w.key,
                                        !.buf = w.value,
                                        !.rival = \E q \in Procs \ {p} :
                                                     pc[q] = "set" /\ call[q].key = w.key ] ]
    /\ pc' = [ pc EXCEPT ![p] = "set" ]
    /\ UNCHANGED << redis, setter, ideal, gone, owner, last, adapterVars >>

\* self._store.set(object_key, dumps(obj_copy)), and the return.
WriteSet(p) ==
    /\ pc[p] = "set"
    /\ redis' = redis_set(redis, call[p].key, call[p].buf)
    /\ setter' = [ k \in DOMAIN redis' |-> IF k = call[p].key THEN p ELSE setter[k] ]
    /\ pc' = [ pc EXCEPT ![p] = "done" ]
    /\ UNCHANGED << call, ideal, gone, owner, last, adapterVars >>

\* remove(obj) up to its delete: self._store.exists(object_key).
RemoveBegin(p, obj) ==
    /\ Returned(p)
    /\ LET key == KeyOf(SA, obj)
           found == key \in DOMAIN redis
       IN  /\ call' = [ call EXCEPT ![p] =
                          [ NoCall EXCEPT !.op = "remove", !.obj = obj, !.key = key,
                                          !.err = IF found THEN "none" ELSE "ObjectNotFound" ] ]
           /\ pc' = [ pc EXCEPT ![p] = IF found THEN "delete" ELSE "done" ]
    /\ UNCHANGED << redis, setter, ideal, gone, owner, last, adapterVars >>

\* self._store.delete(object_key), and the return.
RemoveDelete(p) ==
    /\ pc[p] = "delete"
    /\ redis' = redis_delete(redis, call[p].key)
    /\ setter' = [ k \in DOMAIN redis' |-> setter[k] ]
    /\ pc' = [ pc EXCEPT ![p] = "done" ]
    /\ UNCHANGED << call, ideal, gone, owner, last, adapterVars >>

\* get_all: the scan enumerates the matching keys.
GetAllScan(p, modelname) ==
    /\ Returned(p)
    /\ LET keys == scan_iter(redis, store_label(SA) \o COLON \o modelname \o COLON \o STAR)
       IN  call' = [ call EXCEPT ![p] =
                        [ NoCall EXCEPT !.op = "get_all", !.modelname = modelname,
                                        !.scanned = keys, !.keys = keys ] ]
    /\ pc' = [ pc EXCEPT ![p] = "read" ]
    /\ UNCHANGED << redis, setter, ideal, gone, owner, last, adapterVars >>

\* A get_all loop body that skips a key with no entry.
get_all_read_skip(r, diffsync, key, results) ==
    IF key \in DOMAIN r
    THEN [ err |-> "none", results |-> results \cup { loads_attach(diffsync, r[key]) } ]
    ELSE [ err |-> "none", results |-> results ]

\* The get_all loop body for one enumerated key: GET, loads, attach, append;
\* loads(None) raises TypeError, raised again as ObjectNotFound.
get_all_read(r, diffsync, key, results) ==
    IF key \in DOMAIN r
    THEN [ err |-> "none", results |-> results \cup { loads_attach(diffsync, r[key]) } ]
    ELSE [ err |-> "ObjectNotFound", results |-> {} ]

\* get_all: one turn of the loop.
GetAllRead(p) ==
    /\ pc[p] = "read"
    /\ call[p].keys # {}
    /\ \E k \in call[p].keys :
         LET res == get_all_read(redis, CallerDiffsync(p), k, call[p].results)
         IN  /\ call' = [ call EXCEPT ![p].key = k, ![p].keys = @ \ {k},
                                      ![p].results = res.results, ![p].err = res.err ]
             /\ pc' = [ pc EXCEPT ![p] = IF res.err = "none" THEN "read" ELSE "done" ]
    /\ UNCHANGED << redis, setter, ideal, gone, owner, last, adapterVars >>

\* get_all: the loop is over, the results are returned.
GetAllReturn(p) ==
    /\ pc[p] = "read"
    /\ call[p].keys = {}
    /\ pc' = [ pc EXCEPT ![p] = "done" ]
    /\ UNCHANGED << redis, call, setter, ideal, gone, owner, last, adapterVars >>

\* get(obj, identifier): one GET, and the return.
GetCall(p, modelname, uid) ==
    /\ Returned(p)
    /\ LET res == get(redis, SA, CallerDiffsync(p), "class", modelname, "str", uid)
       IN  call' = [ call EXCEPT ![p] =
                        [ NoCall EXCEPT !.op = "get", !.modelname = modelname,
                                        !.key = _get_key_for_object(SA, modelname, uid),
                                        !.results = IF res.err = "none" THEN { res.obj } ELSE {},
                                        !.err = res.err ] ]
    /\ pc' = [ pc EXCEPT ![p] = "done" ]
    /\ UNCHANGED << redis, setter, ideal, gone, owner, last, adapterVars >>

\* get_by_uids(uids, obj): the call is made.
GetByUidsBegin(p, uids, modelname) ==
    /\ Returned(p)
    /\ call' = [ call EXCEPT ![p] =
                    [ NoCall EXCEPT !.op = "get_by_uids", !.modelname = modelname,
                                    !.uids = uids ] ]
    /\ pc' = [ pc EXCEPT ![p] = "fetch" ]
    /\ UNCHANGED << redis, setter, ideal, gone, owner, last, adapterVars >>

\* get_by_uids: one turn of the loop (one GET), or the return when the loop is over.
GetByUidsFetch(p) ==
    /\ pc[p] = "fetch"
    /\ IF call[p].uids = << >>
       THEN /\ pc' = [ pc EXCEPT ![p] = "done" ]
            /\ call' = call
       ELSE LET res == get_by_uids(redis, SA, CallerDiffsync(p),
                                   << Head(call[p].uids) >>, call[p].modelname)
            IN  /\ call' = [ call EXCEPT
                                ![p].key = _get_key_for_object(SA, call[p].modelname,
                                                               Head(call[p].uids)),
                                ![p].uids = Tail(@),
                                ![p].list = IF res.err = "none" THEN @ \o res.objs ELSE << >>,
                                ![p].err = res.err ]
                /\ pc' = [ pc EXCEPT ![p] = IF res.err = "none" THEN "fetch" ELSE "done" ]
    /\ UNCHANGED << redis, setter, ideal, gone, owner, last, adapterVars >>

CallersInit ==
    /\ pc = [ p \in Procs |-> "idle" ]
    /\ call = [ p \in Procs |-> NoCall ]
    /\ setter = << >>

CallersNext ==
    \/ \E p \in Procs, op \in { "add", "update" }, obj \in RaceRecords : WriteBegin(p, op, obj)
    \/ \E p \in Procs : WriteSet(p)
    \/ \E p \in Procs, obj \in RaceRecords : RemoveBegin(p, obj)
    \/ \E p \in Procs : RemoveDelete(p)
    \/ \E p \in Procs, m \in ModelNames : GetAllScan(p, m)
    \/ \E p \in Procs : GetAllRead(p)
    \/ \E p \in Procs : GetAllReturn(p)
    \/ \E p \in Procs, m \in ModelNames : \E u \in UidsOf(SA, m) : GetCall(p, m, u)
    \/ \E p \in Procs, uids \in { << U >>, << V, U >> } : GetByUidsBegin(p, uids, COUNTRY)
    \/ \E p \in Procs : GetByUidsFetch(p)

vars == << redis, ideal, gone, owner, last, local, phase, nlast, pc, call, setter >>

Init == StoreInit /\ AdapterInit /\ CallersInit

Next == StoreNext

Spec == Init /\ [][Next]_vars

NextNautobot == AdapterNext

SpecNautobot == Init /\ [][NextNautobot]_vars

NextCallers == CallersNext

SpecCallers == Init /\ [][NextCallers]_vars

-----------------------------------------------------------------------------
(* Properties of the store                                                  *)

IsRead == last.op \in { "get", "get_all", "get_by_uids", "count" }

Fields(o) == << o.modelname, o.slug, o.name >>

LivePairs(sid, m) ==
    { p \in DOMAIN ideal[sid] : m = NoFilter \/ p[1] = m }

\* C1: a get that directly follows add(r), on the same store with r's type and
\* r's unique id (given as a string, or as a mapping together with the class),
\* succeeds and returns a record equal to r on its identifier and attribute
\* fields.
C1_RoundTrip ==
    [][ ( /\ last.op = "add"
          /\ last'.op = "get"
          /\ last'.sid = last.sid
          /\ last'.modelname = get_type(last.obj)
          /\ last'.uids = << get_unique_id(last.obj) >>
          /\ last'.form # << "str", "mapping" >> )
        => ( /\ last'.err = "none"
             /\ SameFields(last'.result, last.obj) ) ]_vars

\* A get has returned the record that the store's history holds as last added,
\* and that record had replaced an earlier one.
C1_Witness ==
    /\ last.op = "get"
    /\ last.err = "none"
    /\ last.result.name = "y"
    /\ Status(last.sid, << last.modelname, last.uids[1] >>) = "live"
    /\ SameFields(last.result, ideal[last.sid][<< last.modelname, last.uids[1] >>])

\* C2: remove of a record never added through the store fails with
\* ObjectNotFound; remove of a record added through it (and not removed since)
\* succeeds; a get of a removed record fails with ObjectNotFound.
C2_RemoveLifecycle ==
    /\ (last.op = "remove" /\ last.was = "never") => last.err = "ObjectNotFound"
    /\ (last.op = "remove" /\ last.was = "live") => last.err = "none"
    /\ ( /\ last.op = "get"
         /\ last.form # << "str", "mapping" >>
         /\ Status(last.sid, << last.modelname, last.uids[1] >>) = "removed" )
       => last.err = "ObjectNotFound"

\* C3: a get, get_all, get_by_uids or count on one store returns or counts
\* only entries written through that store.
C3_NamespaceIsolation ==
    IsRead => \A k \in last.keys : owner[k] = last.sid

\* C4: get_all(T) returns exactly the records of type T added through the
\* store (each once; the latest value of those still held), and nothing when
\* none was added.
C4_GetAllExact ==
    last.op = "get_all" =>
        /\ \A o \in DOMAIN last.result : last.result[o] = 1
        /\ { Fields(o) : o \in DOMAIN last.result }
             = { Fields(ideal[last.sid][p]) : p \in LivePairs(last.sid, last.modelname) }

\* C5: count() is the number of live entries of the store, count(T) the number
\* of its live entries of type T.
C5_CountLive ==
    last.op = "count" =>
        last.result = Cardinality(LivePairs(last.sid, last.modelname))

\* C6: remove with remove_children set, on a record whose key is stored, does
\* not raise, deletes the record's key, looks up every child id of the
\* record's child fields in order whether or not earlier ones were missing,
\* and leaves no listed child stored under its own type and id.
C6_RecursiveRemove ==
    (last.op = "remove" /\ last.flag) =>
        /\ (last.err = "none") <=> last.had
        /\ last.err = "none" =>
            LET refs == ChildRefsOf(last.obj, get_children_mapping(last.obj))
            IN  /\ KeyOf(last.sid, last.obj) \notin DOMAIN redis
                /\ last.result = refs
                /\ \A i \in 1..Len(refs) :
                     LET k == _get_key_for_object(last.sid, refs[i].type, refs[i].id)
                     IN  k \in DOMAIN redis =>
                            << redis[k].modelname, redis[k].slug >>
                                # << refs[i].type, refs[i].id >>

\* A recursive remove on store "a" whose first child (v) was never stored and
\* whose second child (u) was deleted together with the parent.
C6_Witness ==
    /\ last.op = "remove" /\ last.flag /\ last.err = "none"
    /\ last.sid = SA
    /\ Len(last.result) = 2
    /\ Status(SA, << COUNTRY, V >>) = "never"
    /\ last.keys = { KeyOf(SA, last.obj), _get_key_for_object(SA, COUNTRY, U) }

GetKey(l) == _get_key_for_object(l.sid, l.modelname, l.uids[1])

\* C12: a get whose type reference is a modelname string and whose identifier
\* is a mapping fails with ValueError; any other get fails with ObjectNotFound
\* when no entry is stored at the derived key and succeeds otherwise; a get,
\* failing or not, leaves the service's contents as they were.
C12_GetErrors ==
    [][ last'.op = "get" =>
          /\ last'.form = << "str", "mapping" >> => last'.err = "ValueError"
          /\ (last'.form # << "str", "mapping" >> /\ GetKey(last') \notin DOMAIN redis)
                => last'.err = "ObjectNotFound"
          /\ (last'.form # << "str", "mapping" >> /\ GetKey(last') \in DOMAIN redis)
                => last'.err = "none"
          /\ redis' = redis ]_vars

\* A get by modelname string and mapping failed although the entry is stored.
C12_Witness ==
    /\ last.op = "get"
    /\ last.form = << "str", "mapping" >>
    /\ last.err = "ValueError"
    /\ GetKey(last) \in DOMAIN redis

\* C13: get_by_uids(uids, T) on a store in which every id of uids is a live
\* entry of type T returns one record per id, in the order of uids, the i-th
\* of type T with unique id uids[i], duplicates included; when some id is not
\* a live entry of the store it fails with ObjectNotFound.
C13_GetByUidsOrder ==
    last.op = "get_by_uids" =>
        IF \A i \in 1..Len(last.uids) :
               Status(last.sid, << last.modelname, last.uids[i] >>) = "live"
        THEN /\ last.err = "none"
             /\ Len(last.result) = Len(last.uids)
             /\ \A i \in 1..Len(last.uids) :
                    /\ get_type(last.result[i]) = last.modelname
                    /\ get_unique_id(last.result[i]) = last.uids[i]
        ELSE last.err = "ObjectNotFound"

\* The keys of the child references of a record, as store sid derives them.
ChildKeys(sid, obj) ==
    LET refs == ChildRefsOf(obj, get_children_mapping(obj))
    IN  { _get_key_for_object(sid, refs[i].type, refs[i].id) : i \in 1..Len(refs) }

\* The keys reachable in r from the keys in todo through child ids.
RECURSIVE ReachKeys(_, _, _, _)
ReachKeys(r, sid, todo, seen) ==
    IF todo = {} THEN seen
    ELSE LET k == CHOOSE k \in todo : TRUE
             kids == IF k \in DOMAIN r THEN ChildKeys(sid, r[k]) ELSE {}
         IN  ReachKeys(r, sid, (todo \cup kids) \ (seen \cup {k}), seen \cup {k})

\* C19: a recursive remove of a stored record returns, and on return the
\* record's key and every key reachable from it through child ids, as far as
\* it had a stored entry, has no entry any more.
C19_RecursiveRemoveReach ==
    [][ (last'.op = "remove" /\ last'.flag /\ last'.err = "none") =>
          /\ KeyOf(last'.sid, last'.obj) \notin DOMAIN redis'
          /\ \A k \in ReachKeys(redis, last'.sid, ChildKeys(last'.sid, last'.obj), {}) :
                k \notin DOMAIN redis' ]_vars

\* The type names a caller may read with: the declared ones, and a modelname
\* string that contains the separator.
ReadTypes == ModelNames \cup { REGION \o COLON \o COUNTRY }

\* What the reads of store sid give for type T in the service contents r.
ReadsOf(r, sid, T) ==
    [ all |-> get_all(r, sid, StoreDiffsync(sid), T),
      count |-> count(r, sid, T),
      get |-> [ u \in { U, V, CU } |->
                  LET res == get(r, sid, StoreDiffsync(sid), "str", T, "str", u)
                  IN  IF res.err = "none" THEN << res.obj >> ELSE << >> ] ]

\* C20: inside one store, an add, an update or a remove (of the record alone)
\* of a record of type T1 leaves the results of get, get_all and count for
\* every other type name T2 as they were.
C20_TypeIsolation ==
    [][ ( \/ last'.op \in { "add", "update" }
          \/ (last'.op = "remove" /\ ~last'.flag) )
        => \A T2 \in ReadTypes \ { get_type(last'.obj) } :
              ReadsOf(redis', last'.sid, T2) = ReadsOf(redis, last'.sid, T2) ]_vars

-----------------------------------------------------------------------------
(* Properties of concurrent callers *)

IsWriteCall(p) == call[p].op \in { "add", "update" }

C15_GetAllNotAtomic ==
    [][ \A p \in Procs :
          (pc[p] = "read" /\ call'[p].keys # call[p].keys) =>
             LET k == call'[p].key
             IN  /\ k \in call[p].keys
                 /\ k \notin DOMAIN redis =>
                       /\ pc'[p] = "done"
                       /\ call'[p].err = "ObjectNotFound"
                       /\ call'[p].results = {}
                 /\ k \in DOMAIN redis =>
                       /\ pc'[p] = "read"
                       /\ call'[p].err = "none"
                       /\ call'[p].results =
                             call[p].results \cup { loads_attach(CallerDiffsync(p), redis[k]) } ]_vars

\* p1's get_all enumerated two keys; p2 removed one of them before p1 read it;
\* p1 failed with ObjectNotFound although the other key still has its entry.
C15_Witness ==
    /\ pc["p1"] = "done"
    /\ call["p1"].op = "get_all"
    /\ call["p1"].err = "ObjectNotFound"
    /\ Cardinality(call["p1"].scanned) = 2
    /\ call["p2"].op = "remove" /\ pc["p2"] = "done" /\ call["p2"].err = "none"
    /\ call["p2"].key = call["p1"].key
    /\ \E k \in call["p1"].scanned : k # call["p1"].key /\ k \in DOMAIN redis

\* C17: every record a caller has got from get, get_all or get_by_uids
\* carries the adapter of that caller's own store instance, whichever adapter
\* the record was attached to when it was written and whichever instance on
\* the same store_id wrote it; no stored copy carries an adapter.
C17_BackReference ==
    /\ \A p \in Procs :
          call[p].op \in { "get", "get_all", "get_by_uids" } =>
              /\ \A o \in call[p].results : o.diffsync = CallerDiffsync(p)
              /\ \A i \in 1..Len(call[p].list) : call[p].list[i].diffsync = CallerDiffsync(p)
    /\ \A k \in DOMAIN redis : redis[k].diffsync = FalseRef

\* p2 got, by get_by_uids, two records that p1's store instance wrote from
\* records attached to p1's adapter.
C17_Witness ==
    /\ pc["p2"] = "done"
    /\ call["p2"].op = "get_by_uids"
    /\ Len(call["p2"].list) = 2
    /\ \A i \in 1..2 :
          /\ call["p2"].list[i].diffsync = "adapterA2"
          /\ setter[KeyOf(SA, call["p2"].list[i])] = "p1"
    /\ call["p1"].op = "add" /\ call["p1"].obj.diffsync = "adapterA"

-----------------------------------------------------------------------------
(* Properties of the adapter *)

IsWrite(l) == l.op \in { "create", "update" }

RegionCount == Cardinality({ k \in DOMAIN local : k[1] = "region" })

RECURSIVE TotalEntries(_)
TotalEntries(pages) ==
    IF pages = << >> THEN 0 ELSE Head(pages).size + TotalEntries(Tail(pages))

C9_LoadAllPages ==
    (nlast.op = "load" /\ nlast.err = "none") => RegionCount = TotalEntries(nlast.pages)

\* A listing of two pages, of 2 and 1 entries, was loaded into 3 region records.
C9_Witness ==
    /\ nlast.op = "load"
    /\ nlast.err = "none"
    /\ nlast.pages = << [ kind |-> "page", size |-> 2 ], [ kind |-> "page", size |-> 1 ] >>
    /\ RegionCount = 3

BodyKeys(attrs) ==
    { IF f = "parent_name" THEN "parent" ELSE f :
        f \in (DOMAIN attrs) \cap { "slug", "description", "parent_name" } }

\* C11: the PATCH sent by a Region update has a body whose keys are exactly
\* those of the attributes in the change set; a change set with only slug gives
\* the body {slug: value}; a change set whose parent_name is cleared gives a
\* body in which parent is present and null.
C11_PatchBody ==
    (nlast.op = "update" /\ nlast.type = "region" /\ nlast.reqs # << >>) =>
        LET req == nlast.reqs[1]
        IN  /\ Len(nlast.reqs) = 1
            /\ req.method = "PATCH"
            /\ req.path = << "/api/dcim/regions/", py_str(nlast.pk), "/" >>
            /\ DOMAIN req.data = BodyKeys(nlast.attrs)
            /\ DOMAIN nlast.attrs = { "slug" } => req.data = [ slug |-> nlast.attrs.slug ]
            /\ "description" \in DOMAIN nlast.attrs
                  => req.data.description = nlast.attrs.description
            /\ ("parent_name" \in DOMAIN nlast.attrs /\ Falsy(nlast.attrs["parent_name"]))
                  => ("parent" \in DOMAIN req.data /\ req.data.parent = None)

\* A Region update whose change set cleared parent_name was sent.
C11_Witness ==
    /\ nlast.op = "update"
    /\ nlast.type = "region"
    /\ Len(nlast.reqs) = 1
    /\ "parent_name" \in DOMAIN nlast.attrs
    /\ nlast.attrs["parent_name"] = None
    /\ nlast.reqs[1].data.parent = None

\* The responses of the region listing that were not answered with a 2xx status.
FailedResponses(l) ==
    { i \in 1..Len(l.statuses) : ~(l.statuses[i] >= 200 /\ l.statuses[i] < 300) }

\* C16: a load in which a response of the region listing has a non-success
\* status fails with the remote-call error, and the first such response is
\* the last request load sends.
C16_LoadFailureFatal ==
    (nlast.op = "load" /\ FailedResponses(nlast) # {}) =>
        /\ nlast.err = "HTTPError"
        /\ \A i \in FailedResponses(nlast) : nlast.gets <= i

\* The primary keys the remote system has given out.
RemotePks == { e.id : e \in RegionEntries }

\* C18: a Region create with a parent name set, when a region of that name is
\* held by the adapter, sends one POST whose parent is that region's remote
\* primary key; when no region of that name is held it fails with
\* ObjectNotFound, sends nothing and leaves the local record graph as it was.
C18_ParentResolved ==
    [][ ( /\ nlast'.op = "create"
          /\ nlast'.type = "region"
          /\ ~Falsy(nlast'.attrs.parent_name) )
        => IF RKey(nlast'.attrs.parent_name) \in DOMAIN local
           THEN /\ Len(nlast'.reqs) = 1
                /\ nlast'.reqs[1].method = "POST"
                /\ nlast'.reqs[1].data.parent \in RemotePks
                /\ nlast'.reqs[1].data.parent = local[RKey(nlast'.attrs.parent_name)].pk
           ELSE /\ nlast'.err = "ObjectNotFound"
                /\ nlast'.reqs = << >>
                /\ local' = local ]_vars

====
